---- MODULE Spec2Model ----
(***************************************************************************)
(* Model of shs_identification.py: Euclidean geometry, the MST builder,    *)
(* the topology queries over a link DataFrame, the recursive branch        *)
(* traversal and the SHS price lookup.                                     *)
(*                                                                         *)
(* DataFrames are sequences of row records (row order = DataFrame order).  *)
(* np.infty is the record Inf; finite numbers are Fin(v).                  *)
(***************************************************************************)
EXTENDS Integers, Sequences, FiniteSets, TLC

VARIABLES
    family,               \* component the caller exercises
    pc,                   \* "idle" (before the call), "run" (inside nodes_on_branch), "done"
    nodes_df,             \* the caller's node DataFrame
    links_df,             \* the caller's link DataFrame
    shs_characteristics,  \* the caller's SHS catalog DataFrame
    args,                 \* arguments of the call, as bound at call time
    stam_node,            \* nodes_on_branch: parameter of the current frame
    branch_first_nodes,   \* nodes_on_branch: parameter of the current frame
    nodes_in_branch,      \* nodes_on_branch: the list object the caller passed;
                          \* every frame receives this same object
    caller_first_nodes,   \* the list object the caller passed as branch_first_nodes
    depth,                \* nodes_on_branch: number of recursive calls made
    ret                   \* outcome of the call

vars == <<family, pc, nodes_df, links_df, shs_characteristics, args, stam_node,
          branch_first_nodes, nodes_in_branch, caller_first_nodes, depth, ret>>

(***************************************************************************)
(* Bounds of the model.                                                    *)
(***************************************************************************)
MaxNodes == 3        \* nodes in a node DataFrame
MaxTreeNodes == 4    \* nodes of a tree link set
MaxLinks == 3        \* rows of an arbitrary link DataFrame
MaxCatalog == 2      \* rows of the SHS catalog

LabelSeq == <<"n1", "n2", "n3", "n4", "n5", "n6">>
Label(i) == LabelSeq[i]

\* Coordinates: the corners of a 3 x 4 rectangle, so that every pairwise
\* Euclidean distance (0, 3, 4 or 5) is computed exactly.
Points == {<<0, 0>>, <<3, 0>>, <<0, 4>>, <<3, 4>>}
TopoLabels == {"n1", "n2", "n3"}
Prices == {1, 2}
Capacities == {1, 2}
Powers == {1, 2}
ReqCapacities == {1, 2, 3}
ReqPowers == {1, 2, 3}

(***************************************************************************)
(* Generic helpers.                                                        *)
(***************************************************************************)
Range(s) == {s[i] : i \in DOMAIN s}
NoDup(s) == \A i, j \in DOMAIN s : s[i] = s[j] => i = j
IsPrefix(s, t) == Len(s) <= Len(t) /\ \A i \in DOMAIN s : s[i] = t[i]
\* every ordering of a finite set as a list
Perms(S) == {f \in [1..Cardinality(S) -> S] : \A i, j \in 1..Cardinality(S) : f[i] = f[j] => i = j}
SeqsUpTo(S, n) == UNION {[1..k -> S] : k \in 0..n}

Fin(v) == [inf |-> FALSE, val |-> v]
Inf == [inf |-> TRUE, val |-> 0]
Leq(a, b) == b.inf \/ (~a.inf /\ a.val <= b.val)

None == [kind |-> "none", val |-> 0]
Return(v) == [kind |-> "return", val |-> v]
Raise == [kind |-> "raise", val |-> 0]

(***************************************************************************)
(* Geometry: distance_between_nodes.                                       *)
(***************************************************************************)
Index(df) == {df[i].label : i \in DOMAIN df}
Loc(df, l) == df[CHOOSE i \in DOMAIN df : df[i].label = l]
Sqrt(k) == CHOOSE r \in 0..k : r * r = k

distance_between_nodes_fallthrough(node1, node2, node_df) ==
    IF ~(node1 \in Index(node_df) /\ node2 \in Index(node_df))
    THEN Return(Inf)
    ELSE Return(Fin(Sqrt(
            (Loc(node_df, node1).x_coordinate - Loc(node_df, node2).x_coordinate) ^ 2
          + (Loc(node_df, node1).y_coordinate - Loc(node_df, node2).y_coordinate) ^ 2)))

distance_between_nodes(node1, node2, node_df) ==
    IF ~(node1 \in Index(node_df) /\ node2 \in Index(node_df))
    THEN Raise
    ELSE Return(Fin(Sqrt(
            (Loc(node_df, node1).x_coordinate - Loc(node_df, node2).x_coordinate) ^ 2
          + (Loc(node_df, node1).y_coordinate - Loc(node_df, node2).y_coordinate) ^ 2)))

(***************************************************************************)
(* MST builder: mst_links.                                                 *)
(***************************************************************************)
\* X: upper-triangular dense distance matrix, X[j][i] for i > j (lines 90-100)
DistanceMatrix(df) ==
    [j \in DOMAIN df |-> [i \in DOMAIN df |->
        IF i > j
        THEN distance_between_nodes(df[i].label, df[j].label, df).val.val
        ELSE 0]]

\* csr_matrix(X): only the non-zero cells are stored
csr_matrix(X) == {c \in (DOMAIN X) \X (DOMAIN X) : X[c[1]][c[2]] # 0}

\* order in which Kruskal visits the stored cells: by weight, then storage order
EdgeBefore(X, e, f) ==
    \/ X[e[1]][e[2]] < X[f[1]][f[2]]
    \/ /\ X[e[1]][e[2]] = X[f[1]][f[2]]
       /\ (e[1] < f[1] \/ (e[1] = f[1] /\ e[2] <= f[2]))

RECURSIVE Kruskal(_, _, _, _)
Kruskal(X, E, comp, T) ==
    IF E = {} THEN T
    ELSE LET e == CHOOSE e \in E : \A f \in E : EdgeBefore(X, e, f)
         IN  IF comp[e[1]] # comp[e[2]]
             THEN Kruskal(X, E \ {e},
                          [v \in DOMAIN comp |->
                              IF comp[v] = comp[e[2]] THEN comp[e[1]] ELSE comp[v]],
                          T \cup {e})
             ELSE Kruskal(X, E \ {e}, comp, T)

\* A = minimum_spanning_tree(csr_matrix(X)).toarray()
minimum_spanning_tree(X) ==
    LET T == Kruskal(X, csr_matrix(X), [v \in DOMAIN X |-> v], {})
    IN  [j \in DOMAIN X |-> [i \in DOMAIN X |-> IF <<j, i>> \in T THEN X[j][i] ELSE 0]]

\* rows appended in the order of the loops of lines 117-126: i outer, j inner
RECURSIVE EmitLinks(_, _, _)
EmitLinks(df, A, k) ==
    IF k > Len(df) * Len(df) THEN <<>>
    ELSE LET i == ((k - 1) \div Len(df)) + 1
             j == ((k - 1) % Len(df)) + 1
         IN  IF i > j /\ A[j][i] > 0
             THEN <<[label |-> <<df[i].label, df[j].label>>,
                     node_a |-> df[i].label,
                     node_b |-> df[j].label,
                     distance |-> distance_between_nodes(df[i].label, df[j].label, df).val]>>
                  \o EmitLinks(df, A, k + 1)
             ELSE EmitLinks(df, A, k + 1)

mst_links(df) == EmitLinks(df, minimum_spanning_tree(DistanceMatrix(df)), 1)

(***************************************************************************)
(* Topology queries over a link DataFrame.                                 *)
(***************************************************************************)
count_number_of_connections_node_a(node_index, df) ==
    Cardinality({k \in DOMAIN df : df[k].node_a = node_index})

count_number_of_connections(node_index, df) ==
    Cardinality({k \in DOMAIN df : df[k].node_a = node_index \/ df[k].node_b = node_index})

\* the row scan returns True at the first matching row, False after the last
are_nodes_connected(node_a, node_b, df) ==
    \E k \in DOMAIN df :
        \/ df[k].node_a = node_a /\ df[k].node_b = node_b
        \/ df[k].node_a = node_b /\ df[k].node_b = node_a

\* set(list(links_df['node_a']) + list(links_df['node_b']))
Endpoints(df) == {df[k].node_a : k \in DOMAIN df} \cup {df[k].node_b : k \in DOMAIN df}

neighoring_nodes_node_a(node_index, df) ==
    Perms({other_node \in {df[k].node_a : k \in DOMAIN df} :
              are_nodes_connected(node_index, other_node, df)})

\* The list is filled in the iteration order of a Python set of strings,
\* which is not fixed by the program: every ordering is a possible result.
neighoring_nodes(node_index, df) ==
    Perms({other_node \in Endpoints(df) : are_nodes_connected(node_index, other_node, df)})

(***************************************************************************)
(* Branch traversal: nodes_on_branch.                                      *)
(***************************************************************************)
RECURSIVE AppendAlways(_, _)
AppendAlways(first_nodes, in_branch) ==
    IF first_nodes = <<>> THEN in_branch
    ELSE AppendAlways(Tail(first_nodes), Append(in_branch, Head(first_nodes)))

Rebind(first_nodes, in_branch) == first_nodes

\* lines 280-282: append the frontier nodes that are not yet in the list
RECURSIVE AppendFrontier(_, _)
AppendFrontier(first_nodes, in_branch) ==
    IF first_nodes = <<>> THEN in_branch
    ELSE AppendFrontier(Tail(first_nodes),
                        IF Head(first_nodes) \in Range(in_branch)
                        THEN in_branch
                        ELSE Append(in_branch, Head(first_nodes)))

\* lines 290-291: the list comprehension keeps the order of neighbors
RECURSIVE DownstreamNodes(_, _, _)
DownstreamNodes(neighbors, stam, in_branch) ==
    IF neighbors = <<>> THEN <<>>
    ELSE IF Head(neighbors) # stam /\ Head(neighbors) \notin Range(in_branch)
         THEN <<Head(neighbors)>> \o DownstreamNodes(Tail(neighbors), stam, in_branch)
         ELSE DownstreamNodes(Tail(neighbors), stam, in_branch)

(***************************************************************************)
(* SHS price lookup: shs_price_for_load.                                   *)
(***************************************************************************)
\* sort_values(by=['capacity[Wh]']) returns a new frame; rows of equal
\* capacity keep their catalog order.
sort_values(df) ==
    LET p == CHOOSE p \in Perms(DOMAIN df) :
                 \A i, j \in DOMAIN df : i < j =>
                     \/ df[p[i]].capacity < df[p[j]].capacity
                     \/ df[p[i]].capacity = df[p[j]].capacity /\ p[i] < p[j]
    IN  [i \in DOMAIN df |-> df[p[i]]]

\* lines 32-35 on the sorted frame: first row meeting both requirements
FirstMatch(capacity, max_power, sorted) ==
    LET ok == {i \in DOMAIN sorted :
                  sorted[i].capacity >= capacity /\ sorted[i].max_power >= max_power}
    IN  IF ok = {} THEN Inf
        ELSE Fin(sorted[CHOOSE i \in ok : \A j \in ok : i <= j].price)

shs_price_for_load(capacity, max_power, df) ==
    FirstMatch(capacity, max_power, sort_values(df))

(***************************************************************************)
(* Graph notions used to state the properties.                             *)
(***************************************************************************)
EdgeSet(df) == {{df[k].node_a, df[k].node_b} : k \in DOMAIN df}

\* nodes reachable from S along edges E
RECURSIVE Reachable(_, _)
Reachable(S, E) ==
    LET N == S \cup {v \in UNION E : \E u \in S : {u, v} \in E}
    IN  IF N = S THEN S ELSE Reachable(N, E)

Connected(V, E) == \A v \in V : Reachable({v}, E) = V
\* a forest: removing any edge separates its two endpoints
Acyclic(E) == \A e \in E : \A u \in e : Reachable({u}, E \ {e}) \cap e = {u}
IsTree(V, E) == Connected(V, E) /\ Acyclic(E) /\ (\A e \in E : e \subseteq V /\ Cardinality(e) = 2)

(***************************************************************************)
(* Inputs the caller can supply.                                           *)
(***************************************************************************)
NodeSets ==
    UNION {{[i \in 1..n |-> [label |-> Label(i),
                             x_coordinate |-> f[i][1],
                             y_coordinate |-> f[i][2]]] : f \in [1..n -> Points]}
           : n \in 1..MaxNodes}

LinkRows == [node_a : TopoLabels, node_b : TopoLabels]
LinkSets == SeqsUpTo(LinkRows, MaxLinks)

Catalogs == SeqsUpTo([price : Prices, capacity : Capacities, max_power : Powers], MaxCatalog)

\* link DataFrame of the tree with edges T over the first n labels, rows in
\* the order and orientation mst_links emits them
RECURSIVE TreeRows(_, _, _)
TreeRows(n, T, k) ==
    IF k > n * n THEN <<>>
    ELSE LET i == ((k - 1) \div n) + 1
             j == ((k - 1) % n) + 1
         IN  IF {Label(i), Label(j)} \in T /\ i > j
             THEN <<[node_a |-> Label(i), node_b |-> Label(j)]>> \o TreeRows(n, T, k + 1)
             ELSE TreeRows(n, T, k + 1)

TreeLinkSets ==
    UNION {{TreeRows(n, T, 1) :
                T \in {T \in SUBSET {{Label(i), Label(j)} : i, j \in 1..n} :
                          IsTree({Label(i) : i \in 1..n}, T)}}
           : n \in 1..MaxTreeNodes}

TreeNodes(df) == IF df = <<>> THEN {Label(1)} ELSE Endpoints(df)

(***************************************************************************)
(* Initial states: the caller holds its inputs, no call made yet.          *)
(***************************************************************************)
NoCall == [op |-> "none"]

Idle(f) ==
    /\ family = f
    /\ pc = "idle"
    /\ args = NoCall
    /\ stam_node = "none"
    /\ branch_first_nodes = <<>>
    /\ caller_first_nodes = <<>>
    /\ depth = 0
    /\ ret = None

InitMst ==
    /\ Idle("mst")
    /\ nodes_df \in NodeSets
    /\ links_df = <<>> /\ shs_characteristics = <<>> /\ nodes_in_branch = <<>>

InitGeometry ==
    /\ Idle("geometry")
    /\ nodes_df \in NodeSets
    /\ links_df = <<>> /\ shs_characteristics = <<>> /\ nodes_in_branch = <<>>

InitTopology ==
    /\ Idle("topology")
    /\ links_df \in LinkSets
    /\ nodes_df = <<>> /\ shs_characteristics = <<>> /\ nodes_in_branch = <<>>

InitBranch ==
    /\ Idle("branch")
    /\ links_df \in TreeLinkSets
    /\ nodes_in_branch \in {<<>>} \cup {<<l>> : l \in TreeNodes(links_df)}
    /\ nodes_df = <<>> /\ shs_characteristics = <<>>

InitPrice ==
    /\ Idle("price")
    /\ shs_characteristics \in Catalogs
    /\ nodes_df = <<>> /\ links_df = <<>> /\ nodes_in_branch = <<>>

Init == InitMst \/ InitGeometry \/ InitTopology \/ InitBranch \/ InitPrice

(***************************************************************************)
(* Operations.                                                             *)
(***************************************************************************)
Inputs == <<nodes_df, links_df, shs_characteristics>>
Frame == <<stam_node, branch_first_nodes, nodes_in_branch, caller_first_nodes, depth>>

MstLinks ==
    /\ family = "mst" /\ pc = "idle"
    /\ args' = [op |-> "mst_links"]
    /\ ret' = Return(mst_links(nodes_df))
    /\ pc' = "done"
    /\ UNCHANGED <<family, Inputs, Frame>>

DistanceBetweenNodes ==
    /\ family = "geometry" /\ pc = "idle"
    /\ \E node1, node2 \in {Label(i) : i \in 1..(MaxNodes + 1)} :
          /\ args' = [op |-> "distance_between_nodes", node1 |-> node1, node2 |-> node2]
          /\ ret' = distance_between_nodes(node1, node2, nodes_df)
    /\ pc' = "done"
    /\ UNCHANGED <<family, Inputs, Frame>>

CountNumberOfConnections ==
    /\ family = "topology" /\ pc = "idle"
    /\ \E node_index \in TopoLabels :
          /\ args' = [op |-> "count_number_of_connections", node_index |-> node_index]
          /\ ret' = Return(count_number_of_connections(node_index, links_df))
    /\ pc' = "done"
    /\ UNCHANGED <<family, Inputs, Frame>>

AreNodesConnected ==
    /\ family = "topology" /\ pc = "idle"
    /\ \E node_a, node_b \in TopoLabels :
          /\ args' = [op |-> "are_nodes_connected", node_a |-> node_a, node_b |-> node_b]
          /\ ret' = Return(are_nodes_connected(node_a, node_b, links_df))
    /\ pc' = "done"
    /\ UNCHANGED <<family, Inputs, Frame>>

NeighoringNodes ==
    /\ family = "topology" /\ pc = "idle"
    /\ \E node_index \in TopoLabels :
          \E neighboring_nodes \in neighoring_nodes(node_index, links_df) :
              /\ args' = [op |-> "neighoring_nodes", node_index |-> node_index]
              /\ ret' = Return(neighboring_nodes)
    /\ pc' = "done"
    /\ UNCHANGED <<family, Inputs, Frame>>

ShsPriceForLoad ==
    /\ family = "price" /\ pc = "idle"
    /\ \E capacity \in ReqCapacities, max_power \in ReqPowers :
          /\ args' = [op |-> "shs_price_for_load",
                      capacity |-> capacity, max_power |-> max_power]
          /\ ret' = Return(shs_price_for_load(capacity, max_power, shs_characteristics))
    /\ pc' = "done"
    /\ UNCHANGED <<family, Inputs, Frame>>

\* The caller invokes nodes_on_branch on a stem of the tree and a frontier
\* made of neighbors of the stem, passing its own two list objects.
NodesOnBranchCall ==
    /\ family = "branch" /\ pc = "idle"
    /\ \E stam \in TreeNodes(links_df) :
          \E first \in UNION {Perms(F) : F \in SUBSET {n \in Endpoints(links_df) :
                                              are_nodes_connected(stam, n, links_df)}} :
              /\ stam_node' = stam
              /\ branch_first_nodes' = first
              /\ caller_first_nodes' = first
              /\ args' = [op |-> "nodes_on_branch", stam_node |-> stam,
                          branch_first_nodes |-> first,
                          nodes_in_branch |-> nodes_in_branch]
    /\ pc' = "run"
    /\ UNCHANGED <<family, Inputs, nodes_in_branch, depth, ret>>

\* One execution of the body of nodes_on_branch (one recursion level).
NodesOnBranchReturn ==
    /\ family = "branch" /\ pc = "run"
    /\ Len(branch_first_nodes) = 0
    /\ nodes_in_branch' = AppendFrontier(branch_first_nodes, nodes_in_branch)
    /\ ret' = Return(nodes_in_branch')
    /\ pc' = "done"
    /\ UNCHANGED <<family, Inputs, args, stam_node, branch_first_nodes,
                   caller_first_nodes, depth>>

NodesOnBranchRecurse ==
    /\ family = "branch" /\ pc = "run"
    /\ Len(branch_first_nodes) # 0
    /\ LET appended == AppendFrontier(branch_first_nodes, nodes_in_branch)
           node == Head(branch_first_nodes)
       IN  \E neighbors \in neighoring_nodes(node, links_df) :
              LET downstream_nodes == DownstreamNodes(neighbors, stam_node, appended)
              IN  /\ nodes_in_branch' = appended \o downstream_nodes
                  /\ stam_node' = node
                  /\ branch_first_nodes' = downstream_nodes
    /\ depth' = depth + 1
    /\ UNCHANGED <<family, pc, Inputs, args, caller_first_nodes, ret>>

Next ==
    \/ MstLinks
    \/ DistanceBetweenNodes
    \/ CountNumberOfConnections
    \/ AreNodesConnected
    \/ NeighoringNodes
    \/ ShsPriceForLoad
    \/ NodesOnBranchCall
    \/ NodesOnBranchReturn
    \/ NodesOnBranchRecurse

Spec == Init /\ [][Next]_vars

\* nodes_on_branch runs synchronously: once called, its body keeps executing.
NextBranch == NodesOnBranchCall \/ NodesOnBranchReturn \/ NodesOnBranchRecurse
BranchFairSpec ==
    /\ InitBranch
    /\ [][NextBranch]_vars
    /\ WF_vars(NodesOnBranchReturn \/ NodesOnBranchRecurse)

(***************************************************************************)
(* Properties.                                                             *)
(***************************************************************************)
MstDone == family = "mst" /\ pc = "done"
GeometryDone == family = "geometry" /\ pc = "done"
TopologyDone(op) == family = "topology" /\ pc = "done" /\ args.op = op
PriceDone == family = "price" /\ pc = "done"
BranchDone == family = "branch" /\ pc = "done"
BranchRunning == family = "branch" /\ pc = "run"

\* C1: for every node set with n >= 1 nodes, coincident nodes included, the
\* links returned by mst_links are exactly n-1, contain no cycle and connect
\* all nodes; for n = 1 the link set is empty.
C1_MstIsSpanningTree ==
    MstDone =>
        /\ Len(ret.val) = Len(nodes_df) - 1
        /\ Acyclic(EdgeSet(ret.val))
        /\ Connected(Index(nodes_df), EdgeSet(ret.val))
        /\ (Len(nodes_df) = 1 => ret.val = <<>>)

\* nodes whose tree path to the stem passes through a frontier node
Downstream(stam, first, df) ==
    Reachable(Range(first), {e \in EdgeSet(df) : stam \notin e})

\* C2: started with an empty list on a tree, nodes_on_branch returns exactly
\* the nodes strictly downstream of the stem through the frontier (all nodes
\* but the stem when the frontier is the full neighbor set), each once.
C2_BranchIsDownstream ==
    (BranchDone /\ args.nodes_in_branch = <<>>) =>
        /\ Range(ret.val) = Downstream(args.stam_node, args.branch_first_nodes, links_df)
        /\ NoDup(ret.val)

RECURSIVE TotalDistance(_, _)
TotalDistance(df, T) ==
    IF T = {} THEN 0
    ELSE LET e == CHOOSE e \in T : TRUE
             u == CHOOSE u \in e : TRUE
             v == CHOOSE v \in e : v # u
         IN  distance_between_nodes(u, v, df).val.val + TotalDistance(df, T \ {e})

RECURSIVE SumDistance(_)
SumDistance(links) ==
    IF links = <<>> THEN 0 ELSE Head(links).distance.val + SumDistance(Tail(links))

\* C3: the links returned by mst_links form a spanning tree and no spanning
\* tree over the same nodes has a strictly smaller total Euclidean distance.
C3_MstIsMinimal ==
    MstDone =>
        /\ IsTree(Index(nodes_df), EdgeSet(ret.val))
        /\ \A T \in SUBSET {{u, v} : u, v \in Index(nodes_df)} :
              IsTree(Index(nodes_df), T) => SumDistance(ret.val) <= TotalDistance(nodes_df, T)

Qualifying(capacity, max_power, df) ==
    {i \in DOMAIN df : df[i].capacity >= capacity /\ df[i].max_power >= max_power}

\* C4: shs_price_for_load returns the minimum price over the catalog entries
\* meeting both requirements, and the infinite sentinel exactly when there
\* is no such entry.
C4_PriceIsCheapest ==
    PriceDone =>
        LET ok == Qualifying(args.capacity, args.max_power, shs_characteristics)
        IN  /\ ret.val.inf <=> ok = {}
            /\ \A i \in ok : Leq(ret.val, Fin(shs_characteristics[i].price))
            /\ ok # {} => \E i \in ok : ret.val = Fin(shs_characteristics[i].price)

\* C5: shs_price_for_load is monotonic: a request that is at least as
\* demanding in capacity and in power never gets a lower price.
C5_PriceIsMonotonic ==
    PriceDone =>
        \A capacity2 \in ReqCapacities, power2 \in ReqPowers :
            (args.capacity <= capacity2 /\ args.max_power <= power2) =>
                Leq(ret.val, shs_price_for_load(capacity2, power2, shs_characteristics))

BothPresent == args.node1 \in Index(nodes_df) /\ args.node2 \in Index(nodes_df)

\* C6: distance_between_nodes raises, and returns nothing (in particular not
\* infinity), when a label is absent from the node set; when both labels are
\* present it returns a finite distance and does not raise.
C6_AbsentLabelRaises ==
    GeometryDone =>
        /\ ~BothPresent => (ret.kind = "raise" /\ ret.kind # "return")
        /\ BothPresent => (ret.kind = "return" /\ ~ret.val.inf)

C6_Witness == GeometryDone /\ ~BothPresent /\ ret.kind = "raise"

\* C7: y is in neighoring_nodes(x) iff are_nodes_connected(x, y), for labels
\* in and out of the link set; are_nodes_connected is symmetric; a node with
\* no links gets the empty list.
C7_NeighborsAgreeWithConnected ==
    /\ TopologyDone("neighoring_nodes") =>
          /\ \A y \in Range(LabelSeq) :
                y \in Range(ret.val) <=> are_nodes_connected(args.node_index, y, links_df)
          /\ (count_number_of_connections(args.node_index, links_df) = 0) => ret.val = <<>>
    /\ TopologyDone("are_nodes_connected") =>
          ret.val = are_nodes_connected(args.node_b, args.node_a, links_df)

C7_Witness ==
    /\ TopologyDone("neighoring_nodes")
    /\ Len(ret.val) = 2
    /\ args.node_index \notin Range(ret.val)
    /\ \E k \in DOMAIN links_df : links_df[k].node_b = args.node_index

UniquePairs(df) ==
    \A k, m \in DOMAIN df :
        {df[k].node_a, df[k].node_b} = {df[m].node_a, df[m].node_b} => k = m

\* C8: when each unordered pair of endpoints appears at most once,
\* count_number_of_connections(x) equals the length of neighoring_nodes(x);
\* both are 0 for a label touching no link.
C8_DegreeIsNeighborCount ==
    UniquePairs(links_df) =>
        /\ TopologyDone("count_number_of_connections") =>
              \A neighbors \in neighoring_nodes(args.node_index, links_df) :
                  ret.val = Len(neighbors)
        /\ TopologyDone("neighoring_nodes") =>
              Len(ret.val) = count_number_of_connections(args.node_index, links_df)

C8_Witness ==
    /\ TopologyDone("count_number_of_connections")
    /\ UniquePairs(links_df)
    /\ ret.val = 2
    /\ \E k \in DOMAIN links_df : links_df[k].node_b = args.node_index

\* C9 as stated: no operation mutates its inputs; in particular the caller's
\* branch_first_nodes, links_df and nodes_in_branch are the same after
\* nodes_on_branch as before.
C9_NoInputMutated ==
    [][/\ Inputs' = Inputs
       /\ BranchRunning => /\ caller_first_nodes' = caller_first_nodes
                           /\ nodes_in_branch' = nodes_in_branch]_vars

\* C9 amended: node set, link set and catalog are never changed and
\* nodes_on_branch leaves the caller's branch_first_nodes alone, but it
\* extends the caller's nodes_in_branch list in place: the list keeps its
\* contents, only grows at the end, and is the value returned.
C9_OnlyAccumulatorExtended ==
    [][/\ Inputs' = Inputs
       /\ BranchRunning => /\ caller_first_nodes' = caller_first_nodes
                           /\ IsPrefix(nodes_in_branch, nodes_in_branch')
                           /\ (pc' = "done" => ret' = Return(nodes_in_branch'))]_vars

C9_Witness ==
    /\ BranchDone
    /\ args.nodes_in_branch # <<>>
    /\ Len(nodes_in_branch) > Len(args.nodes_in_branch) + 1
    /\ caller_first_nodes = args.branch_first_nodes
    /\ depth >= 2

\* C10: on a tree, started with an empty list, the traversal terminates; the
\* result never shrinks, never exceeds n entries, never holds a node twice,
\* the recursion depth is bounded by the result size, and the call whose
\* frontier is empty is the one that returns.
C10_TraversalTerminates ==
    /\ [][(BranchRunning /\ args.nodes_in_branch = <<>>) =>
            /\ Len(nodes_in_branch') >= Len(nodes_in_branch)
            /\ Len(nodes_in_branch') <= Cardinality(TreeNodes(links_df))
            /\ NoDup(nodes_in_branch')
            /\ depth' <= Len(nodes_in_branch')
            /\ (branch_first_nodes = <<>> <=> pc' = "done")]_vars
    /\ (BranchRunning /\ args.nodes_in_branch = <<>>) ~> BranchDone

C10_Witness ==
    /\ BranchDone
    /\ args.nodes_in_branch = <<>>
    /\ depth = 3
    /\ Len(ret.val) = 3

====
